---- MODULE Spec2Model ----
(***************************************************************************)
(* The GeoPackage geometry binary codec of gpkg-rs (gpkg/src/gpkg_wkb.rs): *)
(* the header and flags byte, the envelope skip, and the WKB body writers  *)
(* and readers, modelled on byte sequences; and the GeoPackage container   *)
(* (gpkg/src/lib.rs): create, open, close, layers and records.             *)
(*                                                                         *)
(* Three specifications share the module: Spec (a value encoded, stored    *)
(* and decoded), SpecFlags (the flags byte and the GPKGGeomFlags struct)   *)
(* and SpecDb (the calls on a GeoPackage file).  Each leaves the variables *)
(* of the other two at rest.                                               *)
(*                                                                         *)
(* A byte is a number in 0..255.  A buffer is a sequence of bytes.  An f64 *)
(* is its IEEE-754 bit pattern, kept as 8 bytes, most significant first,   *)
(* so that equality of two f64 values of the model is bit equality.  A     *)
(* reader works on (bytes, pos), pos being the cursor's position: the      *)
(* number of bytes consumed so far.                                        *)
(***************************************************************************)
EXTENDS Integers, Sequences, FiniteSets, TLC

\* ------------------------------------------------------------- bounds
\* The most coordinates a geometry value of the model holds, in all.
MaxPts == 3
\* The most parts (rings of a polygon, elements of a multi-geometry, members
\* of a collection, nested ones included) a geometry value of the model holds,
\* in all.
MaxParts == 2

\* ------------------------------------------------------------- bytes
Reverse(s) == [i \in 1..Len(s) |-> s[Len(s) + 1 - i]]

\* u32::to_le_bytes / i32::to_le_bytes (two's complement: \div floors and
\* % is non-negative) and write_u32::<LittleEndian>.
to_le_bytes4(v) ==
    << v % 256, (v \div 256) % 256, (v \div 65536) % 256, (v \div 16777216) % 256 >>

\* write_u32::<T> of the tests' hand-built buffers, T the byte order.
write_u32(bo, v) ==
    IF bo = "LittleEndian" THEN to_le_bytes4(v) ELSE Reverse(to_le_bytes4(v))

\* f64::to_le_bytes: the bit pattern, least significant byte first.
f64_to_le_bytes(d) == Reverse(d)

\* write_f64::<T> of the tests' hand-built buffers.
write_f64(bo, d) == IF bo = "LittleEndian" THEN Reverse(d) ELSE d

\* The u32 four bytes spell, least significant first.  A u32 of 2^31 or more
\* is kept as 2^31 - 1: the readers compare a u32 with type codes below 2^31
\* and count loop iterations with it, every iteration consumes at least one
\* byte, and no buffer holds 2^31 - 1 bytes, so the two behave alike.
u32_from_le(s) ==
    IF s[4] >= 128 THEN 2147483647
    ELSE s[1] + 256 * s[2] + 65536 * s[3] + 16777216 * s[4]

\* ------------------------------------------------------ reader results
Nil == [kind |-> "None"]
Ok(v, pos) == [tag |-> "Ok", val |-> v, err |-> "", pos |-> pos]
Err(e, pos) == [tag |-> "Err", val |-> Nil, err |-> e, pos |-> pos]
Panic(pos) == [tag |-> "Panic", val |-> Nil, err |-> "panic", pos |-> pos]

\* ReadBytesExt::read_u8 on the cursor: an io error at the end of the buffer.
read_u8(b, pos) ==
    IF pos + 1 > Len(b) THEN Err("Io", pos) ELSE Ok(b[pos + 1], pos + 1)

\* ReadBytesExt::read_u32::<T>.
read_u32(b, pos, bo) ==
    IF pos + 4 > Len(b) THEN Err("Io", pos)
    ELSE LET s == SubSeq(b, pos + 1, pos + 4)
         IN  Ok(u32_from_le(IF bo = "LittleEndian" THEN s ELSE Reverse(s)), pos + 4)

\* ReadBytesExt::read_f64::<T>.
read_f64(b, pos, bo) ==
    IF pos + 8 > Len(b) THEN Err("Io", pos)
    ELSE LET s == SubSeq(b, pos + 1, pos + 8)
         IN  Ok(IF bo = "LittleEndian" THEN Reverse(s) ELSE s, pos + 8)

\* ------------------------------------------------------ geometry values
\* -105.0, 40.0 and 41.5 of the tests, as bit patterns.
Dm105 == << 192, 90, 64, 0, 0, 0, 0, 0 >>
D40 == << 64, 68, 0, 0, 0, 0, 0, 0 >>
D41h == << 64, 68, 192, 0, 0, 0, 0, 0 >>

Coordinate(x, y) == [x |-> x, y |-> y]
Point(c) == [kind |-> "Point", x |-> c.x, y |-> c.y]
LineString(cs) == [kind |-> "LineString", coords |-> cs]
MultiPoint(ps) == [kind |-> "MultiPoint", points |-> ps]
MultiLineString(ls) == [kind |-> "MultiLineString", lines |-> ls]
MultiPolygon(ps) == [kind |-> "MultiPolygon", polygons |-> ps]
GeometryCollection(gs) == [kind |-> "GeometryCollection", geoms |-> gs]
GPKGPointZ(x, y, z) == [kind |-> "PointZ", x |-> x, y |-> y, z |-> z]
GPKGLineStringZ(ps) == [kind |-> "LineStringZ", points |-> ps]

\* geo_types::LineString::close, which Polygon::new applies to every ring: a
\* ring that is not empty and whose first and last coordinates differ gets
\* its first coordinate appended.  (No f64 of the model is a NaN or a zero,
\* so == on f64 is bit equality here.)
close(ls) ==
    IF ls.coords = << >> \/ ls.coords[1] = ls.coords[Len(ls.coords)]
    THEN ls
    ELSE LineString(Append(ls.coords, ls.coords[1]))

\* geo_types::Polygon::new.
Polygon_new(exterior, interiors) ==
    [kind |-> "Polygon",
     exterior |-> close(exterior),
     interiors |-> [i \in 1..Len(interiors) |-> close(interiors[i])]]

\* ------------------------------------------------------------- writers
\* What a writer returns: the bytes it appended to w, or the error.
WOk(bs) == [tag |-> "Ok", bytes |-> bs, err |-> ""]
WErr(e) == [tag |-> "Err", bytes |-> << >>, err |-> e]

\* WKBBytesRaw for geo_types::Coordinate<f64>: x, then y.
Coordinate_write_as_bytes(c) == f64_to_le_bytes(c.x) \o f64_to_le_bytes(c.y)

\* WKBBytesRaw for geo_types::Point<f64>.
Point_write_as_bytes(p) == f64_to_le_bytes(p.x) \o f64_to_le_bytes(p.y)

\* WKBBytesRaw for GPKGPointZ.
GPKGPointZ_write_as_bytes(p) ==
    f64_to_le_bytes(p.x) \o f64_to_le_bytes(p.y) \o f64_to_le_bytes(p.z)

\* for p in &self.0 { p.write_as_bytes(w)? }, one loop per element type.
RECURSIVE write_coordinates(_)
write_coordinates(cs) ==
    IF cs = << >> THEN << >>
    ELSE Coordinate_write_as_bytes(Head(cs)) \o write_coordinates(Tail(cs))

RECURSIVE write_points(_)
write_points(ps) ==
    IF ps = << >> THEN << >>
    ELSE Point_write_as_bytes(Head(ps)) \o write_points(Tail(ps))

RECURSIVE write_pointzs(_)
write_pointzs(ps) ==
    IF ps = << >> THEN << >>
    ELSE GPKGPointZ_write_as_bytes(Head(ps)) \o write_pointzs(Tail(ps))

\* WKBBytesRaw for geo_types::LineString<f64>: the count, then the points.
LineString_write_as_bytes(ls) ==
    to_le_bytes4(Len(ls.coords)) \o write_coordinates(ls.coords)

RECURSIVE write_linestrings(_)
write_linestrings(ls) ==
    IF ls = << >> THEN << >>
    ELSE LineString_write_as_bytes(Head(ls)) \o write_linestrings(Tail(ls))

\* Polygon's write_as_bytes with the ring count written as interiors.len().
Polygon_write_as_bytes_InteriorCount(poly) ==
    to_le_bytes4(Len(poly.interiors))
        \o LineString_write_as_bytes(poly.exterior)
        \o write_linestrings(poly.interiors)

\* WKBBytesRaw for geo_types::Polygon<f64>: interiors + 1, the exterior ring,
\* then the interior rings.
Polygon_write_as_bytes(poly) ==
    to_le_bytes4(Len(poly.interiors) + 1)
        \o LineString_write_as_bytes(poly.exterior)
        \o write_linestrings(poly.interiors)

RECURSIVE write_polygons(_)
write_polygons(ps) ==
    IF ps = << >> THEN << >>
    ELSE Polygon_write_as_bytes(Head(ps)) \o write_polygons(Tail(ps))

\* WKBBytesRaw for geo_types::MultiPoint<f64>.
MultiPoint_write_as_bytes(mp) ==
    to_le_bytes4(Len(mp.points)) \o write_points(mp.points)

\* WKBBytesRaw for geo_types::MultiLineString<f64>.
MultiLineString_write_as_bytes(mls) ==
    to_le_bytes4(Len(mls.lines)) \o write_linestrings(mls.lines)

\* WKBBytesRaw for geo_types::MultiPolygon<f64>.
MultiPolygon_write_as_bytes(mp) ==
    to_le_bytes4(Len(mp.polygons)) \o write_polygons(mp.polygons)

\* WKBBytesRaw for GPKGLineStringZ.
GPKGLineStringZ_write_as_bytes(ls) ==
    to_le_bytes4(Len(ls.points)) \o write_pointzs(ls.points)

\* The type code each full_wkb! instance is given.
full_wkb_code(kind) ==
    CASE kind = "PointZ" -> 1001
      [] kind = "LineStringZ" -> 1002
      [] kind = "Point" -> 1
      [] kind = "LineString" -> 2
      [] kind = "Polygon" -> 3
      [] kind = "MultiPoint" -> 4
      [] kind = "MultiLineString" -> 5
      [] kind = "MultiPolygon" -> 6

\* The kinds full_wkb! implements FullWKB for.
FullWkbKinds ==
    {"PointZ", "LineStringZ", "Point", "LineString", "Polygon", "MultiPoint",
     "MultiLineString", "MultiPolygon"}

\* self.write_as_bytes(w) of the type full_wkb! is instantiated for.
write_as_bytes(g) ==
    CASE g.kind = "PointZ" -> GPKGPointZ_write_as_bytes(g)
      [] g.kind = "LineStringZ" -> GPKGLineStringZ_write_as_bytes(g)
      [] g.kind = "Point" -> Point_write_as_bytes(g)
      [] g.kind = "LineString" -> LineString_write_as_bytes(g)
      [] g.kind = "Polygon" -> Polygon_write_as_bytes(g)
      [] g.kind = "MultiPoint" -> MultiPoint_write_as_bytes(g)
      [] g.kind = "MultiLineString" -> MultiLineString_write_as_bytes(g)
      [] g.kind = "MultiPolygon" -> MultiPolygon_write_as_bytes(g)

\* full_wkb! write_as_wkb: the marker 1, the type code, the payload.
full_wkb_write_as_wkb(g) ==
    WOk(<< 1 >> \o to_le_bytes4(full_wkb_code(g.kind)) \o write_as_bytes(g))

\* FullWKB for geo_types::Geometry<f64>, write_as_wkb: the six kinds it
\* matches; every other variant is an error.
Geometry_write_as_wkb(g) ==
    IF g.kind \in {"Point", "LineString", "Polygon", "MultiPoint",
                   "MultiLineString", "MultiPolygon"}
    THEN full_wkb_write_as_wkb(g)
    ELSE WErr("UnsupportedGeometryType")

\* FullWKB for geo_types::GeometryCollection<f64>, write_as_wkb: each member
\* through Geometry's write_as_wkb, the first error ending the loop.
WTry(r, F(_)) == IF r.tag # "Ok" THEN r ELSE F(r)

RECURSIVE write_members(_)
write_members(gs) ==
    IF gs = << >> THEN WOk(<< >>)
    ELSE WTry(Geometry_write_as_wkb(Head(gs)), LAMBDA h :
         WTry(write_members(Tail(gs)), LAMBDA t : WOk(h.bytes \o t.bytes)))

GeometryCollection_write_as_wkb(gc) == write_members(gc.geoms)

\* T::write_as_wkb for the static type T of the value written: "Geometry" is
\* the enum, any other T the kind's own type (or its GPKG newtype, which
\* full_wkb_from_inner! forwards to it).
write_as_wkb(T, g) ==
    CASE T = "Geometry" -> Geometry_write_as_wkb(g)
      [] T = "GeometryCollection" -> GeometryCollection_write_as_wkb(g)
      [] OTHER -> full_wkb_write_as_wkb(g)

\* The header to_wkb writes: the magic, the version, the flags, the SRS id.
to_wkb_header == << 71, 80, 0, 1 >> \o to_le_bytes4(4326)

\* GeoPackageWKB::to_wkb.
to_wkb(T, g) ==
    WTry(write_as_wkb(T, g), LAMBDA body : WOk(to_wkb_header \o body.bytes))

\* ------------------------------------------------------------- readers
\* The ? operator: an error (or a panic) of r is returned as it is, a value
\* goes on into F.
Try(r, F(_)) == IF r.tag # "Ok" THEN r ELSE F(r)

\* WKBBytesRaw for geo_types::Coordinate<f64>, read_from_bytes::<T>.
Coordinate_read_from_bytes(b, pos, bo) ==
    Try(read_f64(b, pos, bo), LAMBDA x :
    Try(read_f64(b, x.pos, bo), LAMBDA y :
        Ok(Coordinate(x.val, y.val), y.pos)))

\* WKBBytesRaw for geo_types::Point<f64>, read_from_bytes::<T>.
Point_read_from_bytes(b, pos, bo) ==
    Try(read_f64(b, pos, bo), LAMBDA x :
    Try(read_f64(b, x.pos, bo), LAMBDA y :
        Ok(Point(Coordinate(x.val, y.val)), y.pos)))

\* read_from_bytes of GPKGPointZ that leaves the cursor where it was.
GPKGPointZ_read_from_bytes_NoAdvance(b, pos, bo) ==
    Try(read_f64(b, pos, bo), LAMBDA x :
    Try(read_f64(b, x.pos, bo), LAMBDA y :
    Try(read_f64(b, y.pos, bo), LAMBDA z :
        Ok(GPKGPointZ(x.val, y.val, z.val), pos))))

\* WKBBytesRaw for GPKGPointZ, read_from_bytes::<T>.
GPKGPointZ_read_from_bytes(b, pos, bo) ==
    Try(read_f64(b, pos, bo), LAMBDA x :
    Try(read_f64(b, x.pos, bo), LAMBDA y :
    Try(read_f64(b, y.pos, bo), LAMBDA z :
        Ok(GPKGPointZ(x.val, y.val, z.val), z.pos))))

\* for _ in 0..n { out_vec.push(X::read_from_bytes::<T, _>(r)?) }: n elements
\* are still to be read and acc holds those read; the first error ends it.
RECURSIVE read_coordinates(_, _, _, _, _)
read_coordinates(b, pos, n, bo, acc) ==
    IF n = 0 THEN Ok(acc, pos)
    ELSE Try(Coordinate_read_from_bytes(b, pos, bo), LAMBDA r :
             read_coordinates(b, r.pos, n - 1, bo, Append(acc, r.val)))

RECURSIVE read_points(_, _, _, _, _)
read_points(b, pos, n, bo, acc) ==
    IF n = 0 THEN Ok(acc, pos)
    ELSE Try(Point_read_from_bytes(b, pos, bo), LAMBDA r :
             read_points(b, r.pos, n - 1, bo, Append(acc, r.val)))

RECURSIVE read_pointzs(_, _, _, _, _)
read_pointzs(b, pos, n, bo, acc) ==
    IF n = 0 THEN Ok(acc, pos)
    ELSE Try(GPKGPointZ_read_from_bytes(b, pos, bo), LAMBDA r :
             read_pointzs(b, r.pos, n - 1, bo, Append(acc, r.val)))

\* WKBBytesRaw for geo_types::LineString<f64>, read_from_bytes::<T>.
LineString_read_from_bytes(b, pos, bo) ==
    Try(read_u32(b, pos, bo), LAMBDA num_points :
    Try(read_coordinates(b, num_points.pos, num_points.val, bo, << >>), LAMBDA r :
        Ok(LineString(r.val), r.pos)))

RECURSIVE read_linestrings(_, _, _, _, _)
read_linestrings(b, pos, n, bo, acc) ==
    IF n = 0 THEN Ok(acc, pos)
    ELSE Try(LineString_read_from_bytes(b, pos, bo), LAMBDA r :
             read_linestrings(b, r.pos, n - 1, bo, Append(acc, r.val)))

\* Vec::with_capacity(num_rings as usize - 1) in Polygon's read_from_bytes: a
\* panic for a count of 0 (the subtraction overflows; where overflow checks
\* are off, the capacity usize::MAX overflows the allocation size).
interiors_with_capacity(num_rings, pos) ==
    IF num_rings = 0 THEN Panic(pos) ELSE Ok(num_rings - 1, pos)

\* WKBBytesRaw for geo_types::Polygon<f64>, read_from_bytes::<T>: the ring
\* count, the exterior ring, the Vec for the interior rings, then the rings
\* 1..num_rings.
Polygon_read_from_bytes(b, pos, bo) ==
    Try(read_u32(b, pos, bo), LAMBDA num_rings :
    Try(LineString_read_from_bytes(b, num_rings.pos, bo), LAMBDA exterior :
    Try(interiors_with_capacity(num_rings.val, exterior.pos), LAMBDA cap :
    Try(read_linestrings(b, exterior.pos, num_rings.val - 1, bo, << >>), LAMBDA interiors :
        Ok(Polygon_new(exterior.val, interiors.val), interiors.pos)))))

RECURSIVE read_polygons(_, _, _, _, _)
read_polygons(b, pos, n, bo, acc) ==
    IF n = 0 THEN Ok(acc, pos)
    ELSE Try(Polygon_read_from_bytes(b, pos, bo), LAMBDA r :
             read_polygons(b, r.pos, n - 1, bo, Append(acc, r.val)))

\* WKBBytesRaw for geo_types::MultiPoint<f64>, read_from_bytes::<T>.
MultiPoint_read_from_bytes(b, pos, bo) ==
    Try(read_u32(b, pos, bo), LAMBDA num_points :
    Try(read_points(b, num_points.pos, num_points.val, bo, << >>), LAMBDA r :
        Ok(MultiPoint(r.val), r.pos)))

\* WKBBytesRaw for geo_types::MultiPolygon<f64>, read_from_bytes::<T>.
MultiPolygon_read_from_bytes(b, pos, bo) ==
    Try(read_u32(b, pos, bo), LAMBDA num_polys :
    Try(read_polygons(b, num_polys.pos, num_polys.val, bo, << >>), LAMBDA r :
        Ok(MultiPolygon(r.val), r.pos)))

\* WKBBytesRaw for geo_types::MultiLineString<f64>, read_from_bytes::<T>.
MultiLineString_read_from_bytes(b, pos, bo) ==
    Try(read_u32(b, pos, bo), LAMBDA num_lines :
    Try(read_linestrings(b, num_lines.pos, num_lines.val, bo, << >>), LAMBDA r :
        Ok(MultiLineString(r.val), r.pos)))

\* WKBBytesRaw for GPKGLineStringZ, read_from_bytes::<T>.
GPKGLineStringZ_read_from_bytes(b, pos, bo) ==
    Try(read_u32(b, pos, bo), LAMBDA num_points :
    Try(read_pointzs(b, num_points.pos, num_points.val, bo, << >>), LAMBDA r :
        Ok(GPKGLineStringZ(r.val), r.pos)))

\* Self::read_from_bytes::<T, _>(r) of the type full_wkb! is instantiated for.
read_from_bytes(kind, b, pos, bo) ==
    CASE kind = "PointZ" -> GPKGPointZ_read_from_bytes(b, pos, bo)
      [] kind = "LineStringZ" -> GPKGLineStringZ_read_from_bytes(b, pos, bo)
      [] kind = "Point" -> Point_read_from_bytes(b, pos, bo)
      [] kind = "LineString" -> LineString_read_from_bytes(b, pos, bo)
      [] kind = "Polygon" -> Polygon_read_from_bytes(b, pos, bo)
      [] kind = "MultiPoint" -> MultiPoint_read_from_bytes(b, pos, bo)
      [] kind = "MultiLineString" -> MultiLineString_read_from_bytes(b, pos, bo)
      [] kind = "MultiPolygon" -> MultiPolygon_read_from_bytes(b, pos, bo)

\* The match on the marker byte with every byte but 0 taken as little-endian.
match_endianness_NonZeroLittle(m) ==
    IF m.val = 0 THEN Ok("BigEndian", m.pos) ELSE Ok("LittleEndian", m.pos)

\* The match on the marker byte that opens every read_from_wkb: 0 and 1 name
\* the byte order the rest is read in, any other byte is an error.
match_endianness(m) ==
    IF m.val = 0 THEN Ok("BigEndian", m.pos)
    ELSE IF m.val = 1 THEN Ok("LittleEndian", m.pos)
    ELSE Err("GeomDecodeError", m.pos)

read_endianness(b, pos) == Try(read_u8(b, pos), LAMBDA m : match_endianness(m))

\* if geom_type != $x { return Err(Error::UnsupportedGeometryType) }
check_geom_type(geom_type, code) ==
    IF geom_type.val # code THEN Err("UnsupportedGeometryType", geom_type.pos)
    ELSE geom_type

\* full_wkb! read_from_wkb, for the kind the macro is instantiated for.
full_wkb_read_from_wkb(kind, b, pos) ==
    Try(read_endianness(b, pos), LAMBDA endianness :
    Try(read_u32(b, endianness.pos, endianness.val), LAMBDA geom_type :
    Try(check_geom_type(geom_type, full_wkb_code(kind)), LAMBDA checked :
        read_from_bytes(kind, b, geom_type.pos, endianness.val))))

\* The byte order the type code 7 arm of Geometry's read_from_wkb reads
\* num_geoms in: LittleEndian in both arms of its match on endianness.
Geometry_num_geoms_order(endianness) ==
    IF endianness = "LittleEndian" THEN "LittleEndian" ELSE "LittleEndian"

\* FullWKB for geo_types::Geometry<f64>, read_from_wkb: the match on
\* geom_type, and the loop of its type code 7 arm (and of GeometryCollection's
\* read_from_wkb) over the members, each read by Geometry's read_from_wkb.
RECURSIVE Geometry_read_from_wkb(_, _)
RECURSIVE read_geoms(_, _, _, _)
\* The match on geom_type with the arm for Point as the default arm.
Geometry_match_geom_type_DefaultPoint(geom_type, b, pos, bo) ==
    CASE geom_type = 2 -> LineString_read_from_bytes(b, pos, bo)
      [] geom_type = 3 -> Polygon_read_from_bytes(b, pos, bo)
      [] geom_type = 4 -> MultiPoint_read_from_bytes(b, pos, bo)
      [] geom_type = 5 -> MultiLineString_read_from_bytes(b, pos, bo)
      [] geom_type = 6 -> MultiPolygon_read_from_bytes(b, pos, bo)
      [] geom_type = 7 ->
             Try(read_u32(b, pos, Geometry_num_geoms_order(bo)), LAMBDA num_geoms :
             Try(read_geoms(b, num_geoms.pos, num_geoms.val, << >>), LAMBDA r :
                 Ok(GeometryCollection(r.val), r.pos)))
      [] OTHER -> Point_read_from_bytes(b, pos, bo)

Geometry_match_geom_type(geom_type, b, pos, bo) ==
    CASE geom_type = 1 -> Point_read_from_bytes(b, pos, bo)
      [] geom_type = 2 -> LineString_read_from_bytes(b, pos, bo)
      [] geom_type = 3 -> Polygon_read_from_bytes(b, pos, bo)
      [] geom_type = 4 -> MultiPoint_read_from_bytes(b, pos, bo)
      [] geom_type = 5 -> MultiLineString_read_from_bytes(b, pos, bo)
      [] geom_type = 6 -> MultiPolygon_read_from_bytes(b, pos, bo)
      [] geom_type = 7 ->
             Try(read_u32(b, pos, Geometry_num_geoms_order(bo)), LAMBDA num_geoms :
             Try(read_geoms(b, num_geoms.pos, num_geoms.val, << >>), LAMBDA r :
                 Ok(GeometryCollection(r.val), r.pos)))
      [] OTHER -> Err("UnsupportedGeometryType", pos)

Geometry_read_from_wkb(b, pos) ==
    Try(read_endianness(b, pos), LAMBDA endianness :
    Try(read_u32(b, endianness.pos, endianness.val), LAMBDA geom_type :
        Geometry_match_geom_type(geom_type.val, b, geom_type.pos, endianness.val)))

read_geoms(b, pos, n, acc) ==
    IF n = 0 THEN Ok(acc, pos)
    ELSE Try(Geometry_read_from_wkb(b, pos), LAMBDA r :
             read_geoms(b, r.pos, n - 1, Append(acc, r.val)))

\* FullWKB for geo_types::GeometryCollection<f64>, read_from_wkb.
GeometryCollection_read_from_wkb(b, pos) ==
    Try(read_endianness(b, pos), LAMBDA endianness :
    Try(read_u32(b, endianness.pos, endianness.val), LAMBDA geom_type :
    Try(check_geom_type(geom_type, 7), LAMBDA checked :
    Try(read_u32(b, geom_type.pos, endianness.val), LAMBDA num_geoms :
    Try(read_geoms(b, num_geoms.pos, num_geoms.val, << >>), LAMBDA r :
        Ok(GeometryCollection(r.val), r.pos))))))

\* T::read_from_wkb for the static type T asked for.
read_from_wkb(T, b, pos) ==
    CASE T = "Geometry" -> Geometry_read_from_wkb(b, pos)
      [] T = "GeometryCollection" -> GeometryCollection_read_from_wkb(b, pos)
      [] OTHER -> full_wkb_read_from_wkb(T, b, pos)

\* ------------------------------------------------------------- header
\* GPKGGeomFlags::from_byte: the flags, or the panic of the match on the
\* envelope code.
from_byte(b) ==
    LET code == (b \div 2) % 8
    IN  [panic |-> code > 4,
         extended |-> ((b \div 32) % 2) > 0,
         empty_geom |-> ((b \div 16) % 2) > 0,
         little_endian |-> (b % 2) > 0,
         envelope |-> CASE code = 0 -> "Missing"
                        [] code = 1 -> "XY"
                        [] code = 2 -> "XYZ"
                        [] code = 3 -> "XYM"
                        [] code = 4 -> "XYZM"
                        [] OTHER -> "None"]

\* to_byte with the envelope code shifted by two bits.
to_byte_EnvelopeShift2(flags) ==
    (IF flags.extended THEN 32 ELSE 0)
        + (IF flags.empty_geom THEN 16 ELSE 0)
        + 4 * (CASE flags.envelope = "Missing" -> 0
                 [] flags.envelope = "XY" -> 1
                 [] flags.envelope = "XYZ" -> 2
                 [] flags.envelope = "XYM" -> 3
                 [] flags.envelope = "XYZM" -> 4)
        + (IF flags.little_endian THEN 1 ELSE 0)

\* GPKGGeomFlags::to_byte: the four fields or-ed into their (disjoint) bits.
to_byte(flags) ==
    (IF flags.extended THEN 32 ELSE 0)
        + (IF flags.empty_geom THEN 16 ELSE 0)
        + 2 * (CASE flags.envelope = "Missing" -> 0
                 [] flags.envelope = "XY" -> 1
                 [] flags.envelope = "XYZ" -> 2
                 [] flags.envelope = "XYM" -> 3
                 [] flags.envelope = "XYZM" -> 4)
        + (IF flags.little_endian THEN 1 ELSE 0)

\* The match on flags.envelope with XYM given the length of XY.
envelope_length_ShortXYM(envelope) ==
    CASE envelope = "Missing" -> 0
      [] envelope \in {"XY", "XYM"} -> 32
      [] envelope = "XYZ" -> 48
      [] envelope = "XYZM" -> 64

\* The match on flags.envelope in from_wkb.
envelope_length(envelope) ==
    CASE envelope = "Missing" -> 0
      [] envelope = "XY" -> 32
      [] envelope \in {"XYZ", "XYM"} -> 48
      [] envelope = "XYZM" -> 64

\* let geom_start = 8 + envelope_length, for flags that did not panic.
geom_start(flags) == 8 + envelope_length(flags.envelope)

\* from_wkb with the body read in the byte order of bit 0 of the flags byte.
from_wkb_HeaderOrder(T, bytes) ==
    IF Len(bytes) < 4 THEN Panic(0)
    ELSE IF from_byte(bytes[4]).panic THEN Panic(0)
    ELSE IF Len(bytes) < 8 THEN Panic(0)
    ELSE IF geom_start(from_byte(bytes[4])) > Len(bytes) THEN Panic(0)
    ELSE read_from_wkb(T,
             << IF from_byte(bytes[4]).little_endian THEN 1 ELSE 0 >>
                 \o SubSeq(bytes, geom_start(from_byte(bytes[4])) + 2, Len(bytes)),
             0)

\* GeoPackageWKB::from_wkb for the static type T.  bytes[3] panics on a buffer
\* of fewer than 4 bytes, from_byte on an envelope code above 4, bytes[4..8]
\* on fewer than 8 bytes and bytes[geom_start..] on fewer than geom_start;
\* the cursor is over the bytes from geom_start on.
from_wkb(T, bytes) ==
    IF Len(bytes) < 4 THEN Panic(0)
    ELSE IF from_byte(bytes[4]).panic THEN Panic(0)
    ELSE IF Len(bytes) < 8 THEN Panic(0)
    ELSE IF geom_start(from_byte(bytes[4])) > Len(bytes) THEN Panic(0)
    ELSE read_from_wkb(T, SubSeq(bytes, geom_start(from_byte(bytes[4])) + 1, Len(bytes)), 0)

\* ------------------------------------------- buffers of other producers
\* The tests' write_test_*_buf::<T>(endian_byte): the body of each of the six
\* geo_types kinds written by hand in byte order T, counts and f64s alike.
RECURSIVE test_coords(_, _)
test_coords(bo, cs) ==
    IF cs = << >> THEN << >>
    ELSE write_f64(bo, Head(cs).x) \o write_f64(bo, Head(cs).y)
             \o test_coords(bo, Tail(cs))

test_ring(bo, ls) == write_u32(bo, Len(ls.coords)) \o test_coords(bo, ls.coords)

RECURSIVE test_rings(_, _)
test_rings(bo, ls) ==
    IF ls = << >> THEN << >>
    ELSE test_ring(bo, Head(ls)) \o test_rings(bo, Tail(ls))

test_polygon(bo, p) ==
    write_u32(bo, Len(p.interiors) + 1) \o test_ring(bo, p.exterior)
        \o test_rings(bo, p.interiors)

RECURSIVE test_polygons(_, _)
test_polygons(bo, ps) ==
    IF ps = << >> THEN << >>
    ELSE test_polygon(bo, Head(ps)) \o test_polygons(bo, Tail(ps))

endian_byte(bo) == IF bo = "LittleEndian" THEN 1 ELSE 0

write_test_buf(bo, g) ==
    << endian_byte(bo) >> \o
    CASE g.kind = "Point" ->
             write_u32(bo, 1) \o write_f64(bo, g.x) \o write_f64(bo, g.y)
      [] g.kind = "LineString" -> write_u32(bo, 2) \o test_ring(bo, g)
      [] g.kind = "Polygon" -> write_u32(bo, 3) \o test_polygon(bo, g)
      [] g.kind = "MultiPoint" ->
             write_u32(bo, 4) \o write_u32(bo, Len(g.points))
                 \o test_coords(bo, g.points)
      [] g.kind = "MultiLineString" ->
             write_u32(bo, 5) \o write_u32(bo, Len(g.lines)) \o test_rings(bo, g.lines)
      [] g.kind = "MultiPolygon" ->
             write_u32(bo, 6) \o write_u32(bo, Len(g.polygons))
                 \o test_polygons(bo, g.polygons)

\* The body another producer writes for any of the nine kinds in byte order
\* bo: the six kinds as above; PointZ and LineStringZ with the codes 1001 and
\* 1002 and x, y, z per point; a GeometryCollection as the code 7, the member
\* count and the members, each a full tagged body.
RECURSIVE test_pointzs(_, _)
test_pointzs(bo, ps) ==
    IF ps = << >> THEN << >>
    ELSE write_f64(bo, Head(ps).x) \o write_f64(bo, Head(ps).y)
             \o write_f64(bo, Head(ps).z) \o test_pointzs(bo, Tail(ps))

RECURSIVE iso_wkb(_, _)
RECURSIVE iso_members(_, _)
iso_wkb(bo, g) ==
    CASE g.kind = "PointZ" ->
             << endian_byte(bo) >> \o write_u32(bo, 1001) \o test_pointzs(bo, << g >>)
      [] g.kind = "LineStringZ" ->
             << endian_byte(bo) >> \o write_u32(bo, 1002)
                 \o write_u32(bo, Len(g.points)) \o test_pointzs(bo, g.points)
      [] g.kind = "GeometryCollection" ->
             << endian_byte(bo) >> \o write_u32(bo, 7)
                 \o write_u32(bo, Len(g.geoms)) \o iso_members(bo, g.geoms)
      [] OTHER -> write_test_buf(bo, g)

iso_members(bo, gs) ==
    IF gs = << >> THEN << >>
    ELSE iso_wkb(bo, Head(gs)) \o iso_members(bo, Tail(gs))

\* The flags byte of the GeoPackage binary header, from its fields.
flags_byte(le, code) == 2 * code + (IF le THEN 1 ELSE 0)

\* The envelope bytes a producer stores for envelope code `code`: as many as
\* the GeoPackage layout gives the code, here all equal to fill.
envelope_bytes(code, fill) ==
    [i \in 1..(CASE code = 0 -> 0 [] code = 1 -> 32 [] code \in {2, 3} -> 48
                 [] code = 4 -> 64) |-> fill]

\* The blob of another producer: header, envelope, body.
foreign_blob(le, code, fill, bo, g) ==
    << 71, 80, 0, flags_byte(le, code) >> \o write_u32("LittleEndian", 4326)
        \o envelope_bytes(code, fill) \o iso_wkb(bo, g)

\* The body another producer writes for a GeometryCollection whose members
\* are not all in its own byte order bo: the first member in the other byte
\* order, the next in bo, and so on in turn, each a full tagged body.
other_order(bo) == IF bo = "LittleEndian" THEN "BigEndian" ELSE "LittleEndian"

RECURSIVE mixed_members(_, _)
mixed_members(bo, gs) ==
    IF gs = << >> THEN << >>
    ELSE iso_wkb(bo, Head(gs)) \o mixed_members(other_order(bo), Tail(gs))

mixed_wkb(bo, g) ==
    << endian_byte(bo) >> \o write_u32(bo, 7) \o write_u32(bo, Len(g.geoms))
        \o mixed_members(other_order(bo), g.geoms)

\* Its blob: header without envelope, body.
mixed_blob(bo, g) ==
    << 71, 80, 0, flags_byte(bo = "LittleEndian", 0) >>
        \o write_u32("LittleEndian", 4326) \o mixed_wkb(bo, g)

\* ------------------------------------------------------ geometry inputs
Coords == {Coordinate(Dm105, D40), Coordinate(D41h, Dm105)}
PointZs == {GPKGPointZ(Dm105, D40, D41h), GPKGPointZ(D40, D41h, Dm105)}

SeqsUpTo(S, n) == UNION {[1..k -> S] : k \in 0..n}

Points == {Point(c) : c \in Coords}
Lines(n) == {LineString(cs) : cs \in SeqsUpTo(Coords, n)}
\* The rings a Polygon can hold: Polygon::new has closed them.
Rings(n) == {l \in Lines(n) : close(l) = l}

\* The sequences of at most k lines (rings) holding at most n coordinates.
RECURSIVE LineSeqs(_, _)
LineSeqs(k, n) ==
    IF k = 0 THEN {<< >>}
    ELSE {<< >>} \cup
         UNION {{<< l >> \o t : t \in LineSeqs(k - 1, n - Len(l.coords))} : l \in Lines(n)}

RECURSIVE RingSeqs(_, _)
RingSeqs(k, n) ==
    IF k = 0 THEN {<< >>}
    ELSE {<< >>} \cup
         UNION {{<< l >> \o t : t \in RingSeqs(k - 1, n - Len(l.coords))} : l \in Rings(n)}

\* The polygons of at most p rings holding at most n coordinates.
Polygons(p, n) ==
    {Polygon_new(rs[1], Tail(rs)) : rs \in RingSeqs(p, n) \ {<< >>}}

RECURSIVE SumLen(_)
SumLen(ls) == IF ls = << >> THEN 0 ELSE Len(Head(ls).coords) + SumLen(Tail(ls))

PolygonPts(p) == Len(p.exterior.coords) + SumLen(p.interiors)

\* The sequences of polygons holding at most p rings and n coordinates in all.
RECURSIVE PolygonSeqs(_, _)
PolygonSeqs(p, n) ==
    IF p = 0 THEN {<< >>}
    ELSE {<< >>} \cup
         UNION {{<< poly >> \o t
                     : t \in PolygonSeqs(p - 1 - Len(poly.interiors), n - PolygonPts(poly))}
                : poly \in Polygons(p, n)}

\* The members of a collection: points, lines and, while depth d allows,
\* collections.  Weight counts the coordinates, Parts the members at every
\* level.
RECURSIVE Weight(_)
RECURSIVE WeightAll(_)
Weight(g) ==
    CASE g.kind = "Point" -> 1
      [] g.kind = "LineString" -> Len(g.coords)
      [] g.kind = "GeometryCollection" -> WeightAll(g.geoms)
WeightAll(gs) == IF gs = << >> THEN 0 ELSE Weight(Head(gs)) + WeightAll(Tail(gs))

RECURSIVE Parts(_)
RECURSIVE PartsAll(_)
Parts(g) == IF g.kind = "GeometryCollection" THEN 1 + PartsAll(g.geoms) ELSE 1
PartsAll(gs) == IF gs = << >> THEN 0 ELSE Parts(Head(gs)) + PartsAll(Tail(gs))

\* The sequences of members holding at most p parts and n coordinates in all,
\* collections nested at most d deep.
RECURSIVE Members(_, _, _)
RECURSIVE MemberSeqs(_, _, _)
Members(p, d, n) ==
    (IF n >= 1 THEN Points ELSE {}) \cup Lines(n) \cup
    (IF d = 0 THEN {}
     ELSE {GeometryCollection(gs) : gs \in MemberSeqs(p - 1, d - 1, n)})
MemberSeqs(p, d, n) ==
    IF p = 0 THEN {<< >>}
    ELSE {<< >>} \cup
         UNION {{<< g >> \o t : t \in MemberSeqs(p - Parts(g), d, n - Weight(g))}
                : g \in Members(p, d, n)}

\* The geometry values the model encodes and decodes.
Geoms ==
    Points \cup PointZs \cup Lines(MaxPts)
        \cup {GPKGLineStringZ(ps) : ps \in SeqsUpTo(PointZs, MaxPts)}
        \cup {MultiPoint(ps) : ps \in SeqsUpTo(Points, MaxPts)}
        \cup Polygons(MaxParts, MaxPts)
        \cup {MultiLineString(ls) : ls \in LineSeqs(MaxParts, MaxPts)}
        \cup {MultiPolygon(ps) : ps \in PolygonSeqs(MaxParts, MaxPts)}
        \cup {GeometryCollection(gs) : gs \in MemberSeqs(MaxParts, 1, MaxPts)}

\* The values the header, envelope and tampering steps are tried on: one or
\* two of each kind, as the tests have one of each.
CoordA == Coordinate(Dm105, D40)
CoordB == Coordinate(D41h, Dm105)
Samples ==
    {Point(CoordA),
     LineString(<< CoordA, CoordB >>),
     Polygon_new(LineString(<< CoordA >>), << LineString(<< CoordB >>) >>),
     MultiPoint(<< Point(CoordA), Point(CoordB) >>),
     MultiLineString(<< LineString(<< CoordA >>), LineString(<< CoordB >>) >>),
     MultiPolygon(<< Polygon_new(LineString(<< CoordA >>), << >>),
                     Polygon_new(LineString(<< >>), << LineString(<< CoordB >>) >>) >>),
     GeometryCollection(<< Point(CoordA), LineString(<< CoordB >>) >>),
     GeometryCollection(<< GeometryCollection(<< Point(CoordA) >>), Point(CoordB) >>),
     GPKGPointZ(Dm105, D40, D41h),
     GPKGLineStringZ(<< GPKGPointZ(Dm105, D40, D41h), GPKGPointZ(D40, D41h, Dm105) >>)}

\* The ids of the spatial reference systems GeoPackage::create registers.
SrsIds == {4326, -1, 0}

\* The static types FullWKB (and so GeoPackageWKB) is implemented for.
EntryTypes == FullWkbKinds \cup {"GeometryCollection", "Geometry"}

\* The static types a value of g's kind is held as: its own type, and the
\* Geometry enum for the kinds geo_types::Geometry has a variant for.
StaticTypes(g) ==
    {g.kind} \cup (IF g.kind \in {"PointZ", "LineStringZ"} THEN {} ELSE {"Geometry"})

\* Flag bytes, envelope fill bytes, markers and type codes the steps of other
\* producers choose among.
FlagBytes == (0..15) \cup {17, 33, 49, 65, 129, 255}
FillBytes == {0, 255}
MarkerBytes == {0, 1, 2, 255}
TypeCodes == {0, 1, 2, 3, 4, 5, 6, 7, 8, 99, 1000, 1001, 1002, 1003, 16777216}
TruncLens(n) == {0, 3, 4, 7, 8, 9, 12, 13, n - 8, n - 1} \cap (0..(n - 1))
\* The count fields of a body that other producers set, by the offset of
\* their first byte in the blob (the body's first count, and the first
\* count inside its first part), and the counts they declare.
CountOffsets == {14, 18}
Counts == {0, 1, 3}

\* ------------------------------------------------------------- state
VARIABLES
    geom,           \* the geometry value the caller holds
    layer_srs_id,   \* the srs_id of the layer the caller writes it to
    buf,            \* the blob: to_wkb's output, or what storage hands back
    blob,           \* how buf came about
    pc,             \* "value", "encoded", "encode_failed", "stored", "decoded"
    rtype,          \* the static type from_wkb was called for
    result,         \* what from_wkb returned
    flag_pc,        \* the calls made on the flags input so far
    flag_in,        \* the flags input: a byte or a GPKGGeomFlags
    flag_byte,      \* the flags byte at hand
    flag_struct,    \* the GPKGGeomFlags at hand
    file,           \* the file at the path: "absent", or its content
    gp,             \* the GeoPackage handle: "none", or its connection
    ret,            \* what the last call on the GeoPackage returned
    inserted        \* by layer, the records the successful inserts wrote

codec_vars == << geom, layer_srs_id, buf, blob, pc, rtype, result >>
flag_vars == << flag_pc, flag_in, flag_byte, flag_struct >>
db_vars == << file, gp, ret, inserted >>
vars == << codec_vars, flag_vars, db_vars >>

NoBlob ==
    [by |-> "none", le |-> TRUE, code |-> 0, fill |-> 0, bo |-> "LittleEndian",
     tamper |-> "none", arg |-> 0, at |-> 0]

\* No flags call is under way.
NoFlags ==
    [panic |-> TRUE, extended |-> FALSE, empty_geom |-> FALSE,
     little_endian |-> FALSE, envelope |-> "None"]

FlagsAtRest ==
    /\ flag_pc = "rest"
    /\ flag_in = [byte |-> 0, flags |-> NoFlags]
    /\ flag_byte = 0
    /\ flag_struct = NoFlags

\* No GeoPackage call is under way.
NoRet == [op |-> "none", model |-> "none", tag |-> "none", err |-> "", val |-> << >>]

DbAtRest ==
    /\ file = "absent"
    /\ gp = "none"
    /\ ret = NoRet
    /\ inserted = << >>

CodecAtRest ==
    /\ geom = Nil
    /\ layer_srs_id = 4326
    /\ buf = << >>
    /\ blob = NoBlob
    /\ pc = "rest"
    /\ rtype = "none"
    /\ result = Err("none", 0)

Init ==
    /\ geom \in Geoms \cup Samples
    /\ layer_srs_id = 4326
    /\ buf = << >>
    /\ blob = NoBlob
    /\ pc = "value"
    /\ rtype = "none"
    /\ result = Err("none", 0)
    /\ FlagsAtRest
    /\ DbAtRest

\* The caller turns to a layer of a GeoPackage opened with GeoPackage::open,
\* registered by its producer with srs_id (open does not look at it).
OpenLayer(srs_id) ==
    /\ pc = "value"
    /\ geom \in Samples
    /\ srs_id # layer_srs_id
    /\ layer_srs_id' = srs_id
    /\ UNCHANGED << geom, buf, blob, pc, rtype, result >>
    /\ UNCHANGED << flag_vars, db_vars >>

\* ToSql::to_sql: the value is encoded by to_wkb for its static type T.
ToWkb(T) ==
    /\ pc = "value"
    /\ T \in StaticTypes(geom)
    /\ LET r == to_wkb(T, geom)
       IN  /\ buf' = r.bytes
           /\ pc' = IF r.tag = "Ok" THEN "encoded" ELSE "encode_failed"
    /\ blob' = [NoBlob EXCEPT !.by = "to_wkb"]
    /\ UNCHANGED << geom, layer_srs_id, rtype, result >>
    /\ UNCHANGED << flag_vars, db_vars >>

\* The blob in storage was written by another producer, for the same value:
\* body in byte order bo, header bit 0 le, envelope code and fill.
ForeignBlob(le, code, fill, bo) ==
    /\ pc = "value"
    /\ layer_srs_id = 4326
    /\ geom \in Samples \/ (code = 0 /\ fill = 0 /\ le = (bo = "LittleEndian"))
    /\ code = 0 => fill = 0
    /\ code # 0 => le = (bo = "LittleEndian")
    /\ buf' = foreign_blob(le, code, fill, bo, geom)
    /\ blob' = [NoBlob EXCEPT !.by = "foreign", !.le = le, !.code = code,
                              !.fill = fill, !.bo = bo]
    /\ pc' = "stored"
    /\ UNCHANGED << geom, layer_srs_id, rtype, result >>
    /\ UNCHANGED << flag_vars, db_vars >>

\* The blob in storage was written by another producer, for the same
\* GeometryCollection: body in byte order bo, members in differing byte
\* orders.
ForeignMixed(bo) ==
    /\ pc = "value"
    /\ layer_srs_id = 4326
    /\ geom.kind = "GeometryCollection"
    /\ buf' = mixed_blob(bo, geom)
    /\ blob' = [NoBlob EXCEPT !.by = "mixed", !.le = (bo = "LittleEndian"), !.bo = bo]
    /\ pc' = "stored"
    /\ UNCHANGED << geom, layer_srs_id, rtype, result >>
    /\ UNCHANGED << flag_vars, db_vars >>

\* The tampering steps work on a blob without envelope that has not been
\* tampered with, of a sample value.
Tamperable ==
    /\ pc \in {"encoded", "stored"}
    /\ geom \in Samples
    /\ layer_srs_id = 4326
    /\ blob.tamper = "none"
    /\ blob.code = 0

\* The blob in storage is cut to its first n bytes.
Truncate(n) ==
    /\ Tamperable
    /\ n \in TruncLens(Len(buf))
    /\ buf' = SubSeq(buf, 1, n)
    /\ blob' = [blob EXCEPT !.tamper = "truncate", !.arg = n]
    /\ pc' = "stored"
    /\ UNCHANGED << geom, layer_srs_id, rtype, result >>
    /\ UNCHANGED << flag_vars, db_vars >>

\* The flags byte of the blob in storage is f.
SetFlags(f) ==
    /\ Tamperable
    /\ buf[4] # f
    /\ buf' = [buf EXCEPT ![4] = f]
    /\ blob' = [blob EXCEPT !.tamper = "flags", !.arg = f]
    /\ pc' = "stored"
    /\ UNCHANGED << geom, layer_srs_id, rtype, result >>
    /\ UNCHANGED << flag_vars, db_vars >>

\* The byte-order marker of the body of the blob in storage is m.
SetMarker(m) ==
    /\ Tamperable
    /\ Len(buf) >= 9
    /\ buf[9] # m
    /\ buf' = [buf EXCEPT ![9] = m]
    /\ blob' = [blob EXCEPT !.tamper = "marker", !.arg = m]
    /\ pc' = "stored"
    /\ UNCHANGED << geom, layer_srs_id, rtype, result >>
    /\ UNCHANGED << flag_vars, db_vars >>

\* The type code of the body of the blob in storage is c, in the byte order
\* the body's marker names.
SetTypeCode(c) ==
    /\ Tamperable
    /\ Len(buf) >= 13
    /\ LET bo == IF buf[9] = 1 THEN "LittleEndian" ELSE "BigEndian"
           bs == write_u32(bo, c)
       IN  /\ SubSeq(buf, 10, 13) # bs
           /\ buf' = [i \in 1..Len(buf) |-> IF i \in 10..13 THEN bs[i - 9] ELSE buf[i]]
    /\ blob' = [blob EXCEPT !.tamper = "type", !.arg = c]
    /\ pc' = "stored"
    /\ UNCHANGED << geom, layer_srs_id, rtype, result >>
    /\ UNCHANGED << flag_vars, db_vars >>

\* The count field at offset at of the blob in storage declares c, in the
\* byte order the body's marker names.
SetCount(at, c) ==
    /\ Tamperable
    /\ Len(buf) >= at + 3
    /\ LET bo == IF buf[9] = 1 THEN "LittleEndian" ELSE "BigEndian"
           bs == write_u32(bo, c)
       IN  /\ SubSeq(buf, at, at + 3) # bs
           /\ buf' = [i \in 1..Len(buf) |->
                        IF i \in at..(at + 3) THEN bs[i - at + 1] ELSE buf[i]]
    /\ blob' = [blob EXCEPT !.tamper = "count", !.arg = c, !.at = at]
    /\ pc' = "stored"
    /\ UNCHANGED << geom, layer_srs_id, rtype, result >>
    /\ UNCHANGED << flag_vars, db_vars >>

\* FromSql::column_result: the blob is decoded by from_wkb for the static
\* type T of the column.
FromWkb(T) ==
    /\ pc \in {"encoded", "stored"}
    /\ rtype' = T
    /\ result' = from_wkb(T, buf)
    /\ pc' = "decoded"
    /\ UNCHANGED << geom, layer_srs_id, buf, blob >>
    /\ UNCHANGED << flag_vars, db_vars >>

Next ==
    \/ \E srs_id \in SrsIds : OpenLayer(srs_id)
    \/ \E T \in EntryTypes : ToWkb(T)
    \/ \E le \in BOOLEAN, code \in 0..4, fill \in FillBytes,
          bo \in {"LittleEndian", "BigEndian"} : ForeignBlob(le, code, fill, bo)
    \/ \E bo \in {"LittleEndian", "BigEndian"} : ForeignMixed(bo)
    \/ \E n \in 0..128 : Truncate(n)
    \/ \E f \in FlagBytes : SetFlags(f)
    \/ \E m \in MarkerBytes : SetMarker(m)
    \/ \E c \in TypeCodes : SetTypeCode(c)
    \/ \E at \in CountOffsets, c \in Counts : SetCount(at, c)
    \/ \E T \in EntryTypes : FromWkb(T)

Spec == Init /\ [][Next]_vars

\* ------------------------------------------------------- the flags byte
\* The values of GPKGGeomFlags.
FlagStructs ==
    {[panic |-> FALSE, extended |-> e, empty_geom |-> g, little_endian |-> l,
      envelope |-> v]
        : e \in BOOLEAN, g \in BOOLEAN, l \in BOOLEAN,
          v \in {"Missing", "XY", "XYZ", "XYM", "XYZM"}}

\* A flags byte (any u8) or a GPKGGeomFlags value is at hand.
InitFlags ==
    /\ CodecAtRest
    /\ DbAtRest
    /\ \/ /\ flag_pc = "byte"
          /\ flag_byte \in 0..255
          /\ flag_struct = NoFlags
       \/ /\ flag_pc = "flags"
          /\ flag_byte = 0
          /\ flag_struct \in FlagStructs
    /\ flag_in = [byte |-> flag_byte, flags |-> flag_struct]

\* GPKGGeomFlags::from_byte on the byte at hand.
FromByte ==
    /\ flag_pc \in {"byte", "flags.to"}
    /\ flag_struct' = from_byte(flag_byte)
    /\ flag_pc' = IF from_byte(flag_byte).panic THEN "panic"
                  ELSE IF flag_pc = "byte" THEN "byte.from" ELSE "flags.to.from"
    /\ UNCHANGED << flag_in, flag_byte >>
    /\ UNCHANGED << codec_vars, db_vars >>

\* GPKGGeomFlags::to_byte on the flags at hand.
ToByte ==
    /\ flag_pc \in {"flags", "byte.from"}
    /\ flag_byte' = to_byte(flag_struct)
    /\ flag_pc' = IF flag_pc = "flags" THEN "flags.to" ELSE "byte.from.to"
    /\ UNCHANGED << flag_in, flag_struct >>
    /\ UNCHANGED << codec_vars, db_vars >>

NextFlags == FromByte \/ ToByte

SpecFlags == InitFlags /\ [][NextFlags]_vars

\* -------------------------------------------------- the GeoPackage file
\* application_id of a GeoPackage: "GPKG" in ASCII.
GPKG_APPLICATION_ID == 1196444487
\* user_version GeoPackage::create sets: GeoPackage 1.3.0.
GPKG_USER_VERSION == 10300
\* The most rows a layer of the model holds.
MaxRecords == 2

\* The GPKGModel structs of the tests, and what #[derive(GPKGModel)] makes of
\* them: the layer name, the data type, and for a geom_field the row of
\* gpkg_geometry_columns.
Models == {"TestTableAttr", "TestTableGeom", "MPTest"}

get_gpkg_layer_name(M) == IF M = "MPTest" THEN "MPTest" ELSE "test"

LayerNames == {get_gpkg_layer_name(M) : M \in Models}

\* GEO_TYPES: the (m, z) options of a geometry type name.
GEO_TYPES(upper_name) ==
    CASE upper_name = "LINESTRINGZ" -> [m |-> 0, z |-> 1]
      [] upper_name = "MULTIPOINT" -> [m |-> 0, z |-> 0]

\* get_geom_field_info: the geom_field of the struct, if it has one.
get_geom_field_info(M) ==
    CASE M = "TestTableGeom" ->
             [field |-> "geom", geom_type |-> "LINESTRINGZ", srs_id |-> 4326,
              m |-> GEO_TYPES("LINESTRINGZ").m, z |-> GEO_TYPES("LINESTRINGZ").z]
      [] M = "MPTest" ->
             [field |-> "geom", geom_type |-> "MULTIPOINT", srs_id |-> 4326,
              m |-> GEO_TYPES("MULTIPOINT").m, z |-> GEO_TYPES("MULTIPOINT").z]
      [] OTHER -> [field |-> "none"]

\* The static type of the struct's geometry field.
geom_field_type(M) == IF M = "TestTableGeom" THEN "LineStringZ" ELSE "MultiPoint"

\* The records of each struct the model inserts, an Option as the sequence
\* of its value.
Records(M) ==
    CASE M = "TestTableAttr" ->
             {[field1 |-> << 999 >>, field2 |-> 420, field3 |-> "blah"],
              [field1 |-> << >>, field2 |-> 918, field3 |-> "Test values"]}
      [] M = "TestTableGeom" ->
             {[start_node |-> << 42 >>, end_node |-> 918, rev_cost |-> "Test values",
               geom |-> GPKGLineStringZ(<< GPKGPointZ(D40, Dm105, D41h),
                                           GPKGPointZ(D41h, Dm105, D40) >>)]}
      [] M = "MPTest" ->
             {[id |-> 99, geom |-> MultiPoint(<< Point(CoordA), Point(CoordB) >>)]}

\* ToSql for the fields of a record: to_sql of the geometry field fails when
\* to_wkb does.
to_sql_ok(M, r) ==
    get_geom_field_info(M).field # "none"
        => to_wkb(geom_field_type(M), r.geom).tag = "Ok"

\* as_params: the row INSERT binds for a record, the geometry field as the
\* blob to_wkb gives.
as_params(M, r) ==
    IF get_geom_field_info(M).field = "none" THEN r
    ELSE [r EXCEPT !.geom = to_wkb(geom_field_type(M), r.geom).bytes]

\* FromSql for the fields of a row: column_result of the geometry field
\* fails when from_wkb does.
column_result_ok(M, row) ==
    get_geom_field_info(M).field # "none"
        => from_wkb(geom_field_type(M), row.geom).tag = "Ok"

\* from_row: the record of a row, the geometry field decoded by from_wkb.
from_row(M, row) ==
    IF get_geom_field_info(M).field = "none" THEN row
    ELSE [row EXCEPT !.geom = from_wkb(geom_field_type(M), row.geom).val]

RECURSIVE rows_as_params(_, _)
rows_as_params(M, rs) ==
    IF rs = << >> THEN << >>
    ELSE << as_params(M, Head(rs)) >> \o rows_as_params(M, Tail(rs))

RECURSIVE rows_from_row(_, _)
rows_from_row(M, rows) ==
    IF rows = << >> THEN << >>
    ELSE << from_row(M, Head(rows)) >> \o rows_from_row(M, Tail(rows))

\* The database GeoPackage::create leaves: the metadata tables, the three
\* default spatial reference systems, no layer.
created_db ==
    [tables |-> [l \in LayerNames |-> "none"],
     rows |-> [l \in LayerNames |-> << >>],
     gpkg_contents |-> {},
     gpkg_geometry_columns |-> {},
     gpkg_spatial_ref_sys |-> SrsIds]

\* A path that holds no file.
NoFile ==
    [by |-> "absent", application_id |-> 0, user_version |-> 0,
     integrity_check |-> "", db |-> created_db]

\* A GeoPackage that was closed, or never opened.
NoConnection == [open |-> FALSE, in_txn |-> FALSE, db |-> created_db]

\* The file GeoPackage::create leaves, with application_id 0.
created_file_NoApplicationId ==
    [by |-> "create", application_id |-> 0, user_version |-> GPKG_USER_VERSION,
     integrity_check |-> "ok", db |-> created_db]

\* The file GeoPackage::create leaves.
created_file ==
    [by |-> "create", application_id |-> GPKG_APPLICATION_ID,
     user_version |-> GPKG_USER_VERSION, integrity_check |-> "ok",
     db |-> created_db]

\* PRAGMA foreign_key_check: the rows whose parent row is missing, by the
\* FOREIGN KEY constraints of gpkg_contents and gpkg_geometry_columns.  The
\* srs_id of gpkg_contents may be NULL: it is the set of its value.
foreign_key_check(db) ==
    {c \in db.gpkg_contents :
        ~(c.srs_id \subseteq db.gpkg_spatial_ref_sys)}
    \cup
    {g \in db.gpkg_geometry_columns :
        \/ g.srs_id \notin db.gpkg_spatial_ref_sys
        \/ g.table_name \notin {c.table_name : c \in db.gpkg_contents}}

\* The files of other producers GeoPackage::open is tried on.
orphan_db ==
    [created_db EXCEPT !.gpkg_geometry_columns =
        {[table_name |-> "roads", column_name |-> "geom",
          geometry_type_name |-> "POINT", srs_id |-> 4326, z |-> 0, m |-> 0]}]

ForeignFiles ==
    {[by |-> "foreign", application_id |-> a, user_version |-> u,
      integrity_check |-> i, db |-> d]
        : a \in {GPKG_APPLICATION_ID, 0, -1},
          u \in {GPKG_USER_VERSION, -1},
          i \in {"ok", "row 1 missing from index"},
          d \in {created_db, orphan_db}}

\* What a call returns.
RetOk(op, M, v) == [op |-> op, model |-> M, tag |-> "Ok", err |-> "", val |-> v]
RetErr(op, M, e) == [op |-> op, model |-> M, tag |-> "Err", err |-> e, val |-> << >>]

\* GeoPackage::create without the check that the path exists: the existing
\* file is opened and its pragmas are set before CREATE TABLE fails.
create_NoExistsCheck(f) ==
    IF f.by # "absent"
    THEN [ret |-> RetErr("create", "none", "SQLiteError"),
          file |-> [f EXCEPT !.application_id = GPKG_APPLICATION_ID,
                             !.user_version = GPKG_USER_VERSION],
          opened |-> FALSE]
    ELSE [ret |-> RetOk("create", "none", << >>), file |-> created_file,
          opened |-> TRUE]

\* GeoPackage::create on the path holding f.
create(f) ==
    IF f.by # "absent"
    THEN [ret |-> RetErr("create", "none", "CreateExistingError"), file |-> f,
          opened |-> FALSE]
    ELSE [ret |-> RetOk("create", "none", << >>), file |-> created_file,
          opened |-> TRUE]

\* GeoPackage::open on the path holding f: what it returns.  The pragmas are
\* read as u32, which a negative value does not fit.
open(f) ==
    IF f.by = "absent" THEN RetErr("open", "none", "SQLiteError")
    ELSE IF f.application_id < 0 THEN RetErr("open", "none", "SQLiteError")
    ELSE IF f.application_id # GPKG_APPLICATION_ID
        THEN RetErr("open", "none", "ValidationError")
    ELSE IF f.user_version < 0 THEN RetErr("open", "none", "SQLiteError")
    ELSE IF f.integrity_check # "ok" THEN RetErr("open", "none", "ValidationError")
    ELSE IF foreign_key_check(f.db) # {} THEN RetErr("open", "none", "ValidationError")
    ELSE RetOk("open", "none", << >>)

\* get_create_sql, past BEGIN and CREATE TABLE: the rows the batch inserts.
\* The values of the gpkg_geometry_columns row are given in the order
\* (.., srs_id, m, z) for the columns (.., srs_id, z, m).
get_create_sql(M, db) ==
    [db EXCEPT
        !.tables[get_gpkg_layer_name(M)] = M,
        !.rows[get_gpkg_layer_name(M)] = << >>,
        !.gpkg_geometry_columns =
            IF get_geom_field_info(M).field = "none" THEN @
            ELSE @ \cup {[table_name |-> get_gpkg_layer_name(M),
                          column_name |-> get_geom_field_info(M).field,
                          geometry_type_name |-> get_geom_field_info(M).geom_type,
                          srs_id |-> get_geom_field_info(M).srs_id,
                          z |-> get_geom_field_info(M).m,
                          m |-> get_geom_field_info(M).z]},
        !.gpkg_contents =
            @ \cup {IF get_geom_field_info(M).field = "none"
                    THEN [table_name |-> get_gpkg_layer_name(M),
                          data_type |-> "attributes", srs_id |-> {}]
                    ELSE [table_name |-> get_gpkg_layer_name(M),
                          data_type |-> "features",
                          srs_id |-> {get_geom_field_info(M).srs_id}]}]

\* get_insert_sql executed for the rows: they are appended to the layer.
get_insert_sql(M, db, rows) ==
    [db EXCEPT !.rows[get_gpkg_layer_name(M)] = @ \o rows]

\* ------------------------------------------- the GeoPackage state machine
\* file is what the path holds; gp is the open GeoPackage: its connection's
\* view of the database and whether a transaction is open on it.  Outside a
\* transaction every statement commits, so the view is the file's database;
\* inside one the file keeps what was last committed.  ret is what the last
\* call returned; inserted is, per layer, the records the successful
\* insert_record and insert_many calls were given.  Foreign keys are not
\* enforced as statements run (SQLite's default); PRAGMA foreign_key_check
\* in open finds the violations.
NoInserted == [l \in LayerNames |-> << >>]

InitDb ==
    /\ CodecAtRest
    /\ FlagsAtRest
    /\ file \in {NoFile} \cup ForeignFiles
    /\ gp = NoConnection
    /\ ret = NoRet
    /\ inserted = NoInserted

Connection(db) == [open |-> TRUE, in_txn |-> FALSE, db |-> db]

\* Sequences of at most n records of a set.
RecordSeqs(S, n) == UNION {[1..k -> S] : k \in 0..n}

\* GeoPackage::create(path)
Create ==
    /\ file' = create(file).file
    /\ gp' = IF create(file).opened THEN Connection(create(file).file.db) ELSE gp
    /\ ret' = create(file).ret
    /\ UNCHANGED inserted
    /\ UNCHANGED << codec_vars, flag_vars >>

\* GeoPackage::open(path)
Open ==
    /\ ~gp.open
    /\ ret' = open(file)
    /\ gp' = IF open(file).tag = "Ok" THEN Connection(file.db) ELSE NoConnection
    /\ UNCHANGED << file, inserted >>
    /\ UNCHANGED << codec_vars, flag_vars >>

\* gp.close(): the connection is closed, and SQLite rolls back the
\* transaction that is open on it.
Close ==
    /\ gp.open
    /\ gp' = NoConnection
    /\ ret' = RetOk("close", "none", << >>)
    /\ UNCHANGED << file, inserted >>
    /\ UNCHANGED << codec_vars, flag_vars >>

\* gp.create_layer::<M>(): execute_batch of BEGIN; CREATE TABLE; INSERT;
\* INSERT; COMMIT, which stops at the first statement that fails.
CreateLayer(M) ==
    /\ gp.open
    /\ IF gp.in_txn
       THEN /\ ret' = RetErr("create_layer", M, "SQLiteError")
            /\ UNCHANGED << gp, file, inserted >>
       ELSE IF gp.db.tables[get_gpkg_layer_name(M)] # "none"
       THEN /\ ret' = RetErr("create_layer", M, "SQLiteError")
            /\ gp' = [gp EXCEPT !.in_txn = TRUE]
            /\ UNCHANGED << file, inserted >>
       ELSE /\ ret' = RetOk("create_layer", M, << >>)
            /\ gp' = [gp EXCEPT !.db = get_create_sql(M, gp.db)]
            /\ file' = [file EXCEPT !.db = get_create_sql(M, gp.db)]
            /\ inserted' = [inserted EXCEPT ![get_gpkg_layer_name(M)] = << >>]
    /\ UNCHANGED << codec_vars, flag_vars >>

\* gp.insert_record(&r) for a record r of M
InsertRecord(M, r) ==
    /\ gp.open
    /\ Len(inserted[get_gpkg_layer_name(M)]) < MaxRecords
    /\ IF gp.db.tables[get_gpkg_layer_name(M)] # M \/ ~to_sql_ok(M, r)
       THEN /\ ret' = RetErr("insert_record", M, "SQLiteError")
            /\ UNCHANGED << gp, file, inserted >>
       ELSE /\ ret' = RetOk("insert_record", M, << >>)
            /\ gp' = [gp EXCEPT !.db = get_insert_sql(M, gp.db, << as_params(M, r) >>)]
            /\ file' = IF gp.in_txn THEN file
                       ELSE [file EXCEPT !.db =
                                get_insert_sql(M, gp.db, << as_params(M, r) >>)]
            /\ inserted' = [inserted EXCEPT ![get_gpkg_layer_name(M)] = @ \o << r >>]
    /\ UNCHANGED << codec_vars, flag_vars >>

\* gp.insert_many(&rs) for records rs of M: one transaction around the
\* inserts, which cannot start inside an open one.
InsertMany(M, rs) ==
    /\ gp.open
    /\ Len(inserted[get_gpkg_layer_name(M)]) + Len(rs) <= MaxRecords
    /\ IF \/ gp.in_txn
          \/ gp.db.tables[get_gpkg_layer_name(M)] # M
          \/ \E i \in 1..Len(rs) : ~to_sql_ok(M, rs[i])
       THEN /\ ret' = RetErr("insert_many", M, "SQLiteError")
            /\ UNCHANGED << gp, file, inserted >>
       ELSE /\ ret' = RetOk("insert_many", M, << >>)
            /\ gp' = [gp EXCEPT !.db = get_insert_sql(M, gp.db, rows_as_params(M, rs))]
            /\ file' = [file EXCEPT !.db =
                            get_insert_sql(M, gp.db, rows_as_params(M, rs))]
            /\ inserted' = [inserted EXCEPT ![get_gpkg_layer_name(M)] = @ \o rs]
    /\ UNCHANGED << codec_vars, flag_vars >>

\* gp.get_all::<M>()
GetAll(M) ==
    /\ gp.open
    /\ ret' = IF gp.db.tables[get_gpkg_layer_name(M)] # M
              THEN RetErr("get_all", M, "SQLiteError")
              ELSE IF \E i \in 1..Len(gp.db.rows[get_gpkg_layer_name(M)]) :
                        ~column_result_ok(M, gp.db.rows[get_gpkg_layer_name(M)][i])
              THEN RetErr("get_all", M, "SQLiteError")
              ELSE RetOk("get_all", M,
                         rows_from_row(M, gp.db.rows[get_gpkg_layer_name(M)]))
    /\ UNCHANGED << file, gp, inserted >>
    /\ UNCHANGED << codec_vars, flag_vars >>

\* The columns of gpkg_contents and of gpkg_geometry_columns.
gpkg_contents_columns ==
    {"table_name", "data_type", "identifier", "description", "last_change",
     "min_x", "min_y", "max_x", "max_y", "srs_id"}

gpkg_geometry_columns_columns ==
    {"table_name", "column_name", "geometry_type_name", "srs_id", "z", "m"}

\* UPDATE .. SET srs_id = ?1 WHERE <where_column> = ?2 on the rows of a table
\* that has the given columns: the statement fails when the table has no
\* column of that name.
update_srs_id(rows, columns, where_column, srs_value, name) ==
    IF where_column \notin columns THEN [ok |-> FALSE, rows |-> rows]
    ELSE [ok |-> TRUE,
          rows |-> {IF r[where_column] = name
                    THEN [r EXCEPT !.srs_id = srs_value] ELSE r : r \in rows}]

\* The two UPDATE statements of update_layer_srs_id, in their transaction:
\* the database they leave, and whether both were executed and committed.
update_layer_srs_id(db, layer_name, srs_id) ==
    IF ~update_srs_id(db.gpkg_contents, gpkg_contents_columns,
                      "layer_name", {srs_id}, layer_name).ok
    THEN [ok |-> FALSE, db |-> db]
    ELSE IF ~update_srs_id(db.gpkg_geometry_columns, gpkg_geometry_columns_columns,
                           "layer_name", srs_id, layer_name).ok
    THEN [ok |-> FALSE, db |-> db]
    ELSE [ok |-> TRUE,
          db |-> [db EXCEPT
                    !.gpkg_contents =
                        update_srs_id(@, gpkg_contents_columns,
                                      "layer_name", {srs_id}, layer_name).rows,
                    !.gpkg_geometry_columns =
                        update_srs_id(@, gpkg_geometry_columns_columns,
                                      "layer_name", srs_id, layer_name).rows]]

\* gp.update_layer_srs_id(layer_name, srs_id): the transaction cannot start
\* inside an open one, and is rolled back when a statement fails.
UpdateLayerSrsId(layer_name, srs_id) ==
    /\ gp.open
    /\ IF gp.in_txn \/ ~update_layer_srs_id(gp.db, layer_name, srs_id).ok
       THEN /\ ret' = RetErr("update_layer_srs_id", layer_name, "SQLiteError")
            /\ UNCHANGED << gp, file >>
       ELSE /\ ret' = RetOk("update_layer_srs_id", layer_name, << srs_id >>)
            /\ gp' = [gp EXCEPT !.db = update_layer_srs_id(gp.db, layer_name, srs_id).db]
            /\ file' = [file EXCEPT !.db = update_layer_srs_id(gp.db, layer_name, srs_id).db]
    /\ UNCHANGED inserted
    /\ UNCHANGED << codec_vars, flag_vars >>

NextDb ==
    \/ Create
    \/ Open
    \/ Close
    \/ \E M \in Models : CreateLayer(M)
    \/ \E M \in Models : \E r \in Records(M) : InsertRecord(M, r)
    \/ \E M \in Models : \E rs \in RecordSeqs(Records(M), MaxRecords) : InsertMany(M, rs)
    \/ \E M \in Models : GetAll(M)
    \/ \E l \in LayerNames : \E srs_id \in SrsIds : UpdateLayerSrsId(l, srs_id)

SpecDb == InitDb /\ [][NextDb]_vars

\* ------------------------------------------------------------- claims
\* The blob is what a producer wrote for geom, untouched.
Untampered == blob.by # "none" /\ blob.tamper = "none"

\* The kinds the tests hold a hand-built buffer for.
TestKinds ==
    {"Point", "LineString", "Polygon", "MultiPoint", "MultiLineString", "MultiPolygon"}

\* The type codes of the GeoPackage type table.
TableCodes == {1, 2, 3, 4, 5, 6, 7, 1001, 1002}

\* The envelope lengths of the GeoPackage layout, by envelope code.
LayoutEnvelopeLength(c) ==
    CASE c = 0 -> 0 [] c = 1 -> 32 [] c \in {2, 3} -> 48 [] c = 4 -> 64

\* The envelope code of flags byte f.
EnvelopeCode(f) == (f \div 2) % 8

\* C1: for every supported geometry value g, to_wkb(g) succeeds and
\* from_wkb(to_wkb(g)), for g's own static type, succeeds with a value equal
\* to g: the same f64 bit patterns in the same order of points, rings and
\* elements.
C1_RoundTrip ==
    /\ pc # "encode_failed"
    /\ (pc = "decoded" /\ blob.by = "to_wkb" /\ blob.tamper = "none"
            /\ rtype \in StaticTypes(geom))
       => (result.tag = "Ok" /\ result.val = geom)

\* C2: for a Point, LineString, Polygon, MultiPoint, MultiLineString or
\* MultiPolygon, the body write_as_wkb emits (the bytes of to_wkb's output
\* from offset 8 on) is the reference byte sequence: the byte 1, the type
\* code 1..6 as a little-endian u32, then the payload with every count a
\* little-endian u32 and every coordinate little-endian f64s, x before y; a
\* Polygon has the ring count interiors + 1 and its exterior ring first; the
\* Multi kinds have the element count and the untagged element payloads.
C2_ReferenceBytes ==
    (pc = "encoded" /\ geom.kind \in TestKinds)
    => SubSeq(buf, 9, Len(buf)) = write_test_buf("LittleEndian", geom)

C2_Witness ==
    /\ pc = "encoded"
    /\ geom.kind = "MultiPolygon"
    /\ Len(geom.polygons) = 2
    /\ Len(geom.polygons[2].interiors) = 1
    /\ SubSeq(buf, 9, 17) = << 1, 6, 0, 0, 0, 2, 0, 0, 0 >>

\* C3: for every geometry of the supported kinds, a big-endian body (marker
\* 0) and a little-endian body (marker 1) of the same geometry decode, for
\* the geometry's own static type, to equal geometries.
C3_CrossEndian ==
    (pc = "decoded" /\ Untampered /\ blob.by = "foreign" /\ blob.bo = "BigEndian"
        /\ rtype \in StaticTypes(geom))
    => /\ result.tag = "Ok"
       /\ result = from_wkb(rtype, foreign_blob(blob.le, blob.code, blob.fill,
                                                "LittleEndian", geom))

\* C4: to_wkb's output starts with the bytes 0x47 0x50 0x00 0x01, then the
\* srs_id the caller writes the geometry for as a little-endian i32, for
\* every srs_id; the body starts at offset 8.
C4_Header ==
    pc = "encoded"
    => /\ SubSeq(buf, 1, 4) = << 71, 80, 0, 1 >>
       /\ SubSeq(buf, 5, 8) = to_le_bytes4(layer_srs_id)
       /\ (geom.kind \in FullWkbKinds => SubSeq(buf, 9, 9) = << 1 >>)

\* C5: for a buffer whose flags byte has an envelope code c in 0..4 (and that
\* holds the 8 + E(c) bytes of header and envelope), from_wkb reads the body
\* from offset 8 + E(c) on, E(0) = 0, E(1) = 32, E(2) = E(3) = 48, E(4) = 64;
\* and what it decodes does not depend on the envelope's bytes.
C5_EnvelopeSkip ==
    /\ (pc = "decoded" /\ Len(buf) >= 8 /\ EnvelopeCode(buf[4]) <= 4
            /\ Len(buf) >= 8 + LayoutEnvelopeLength(EnvelopeCode(buf[4])))
       => result = read_from_wkb(rtype,
                       SubSeq(buf, 9 + LayoutEnvelopeLength(EnvelopeCode(buf[4])), Len(buf)),
                       0)
    /\ (pc = "decoded" /\ Untampered /\ blob.by = "foreign")
       => /\ result = read_from_wkb(rtype, iso_wkb(blob.bo, geom), 0)
          /\ \A fill \in FillBytes :
                 result = from_wkb(rtype, foreign_blob(blob.le, blob.code, fill,
                                                       blob.bo, geom))

C5_Witness ==
    /\ pc = "decoded"
    /\ Untampered
    /\ blob.by = "foreign"
    /\ blob.code = 3
    /\ blob.fill = 255
    /\ Len(buf) > 8 + 48
    /\ result.tag = "Ok"
    /\ result.val = geom

\* C6: decoding a buffer whose flags byte has an envelope code of 5, 6 or 7
\* returns an error to the caller; it does not panic.
C6_BadEnvelopeCode ==
    (pc = "decoded" /\ Len(buf) >= 8 /\ EnvelopeCode(buf[4]) \in 5..7)
    => result.tag = "Err"

\* C7: decoding a buffer of fewer than 8 bytes, or of fewer bytes than 8 plus
\* the envelope length its flags byte declares, returns an error to the
\* caller; it does not panic.
C7_ShortBuffer ==
    (pc = "decoded"
        /\ \/ Len(buf) < 8
           \/ /\ EnvelopeCode(buf[4]) <= 4
              /\ Len(buf) < 8 + LayoutEnvelopeLength(EnvelopeCode(buf[4])))
    => result.tag = "Err"

\* C8: when the first byte of the body is neither 0 nor 1, read_from_wkb
\* returns the decode error having consumed that byte alone (no type code is
\* read), whatever the static type: one of the eight full_wkb! types,
\* GeometryCollection or Geometry.
C8_MarkerRejected ==
    (pc = "decoded" /\ blob.tamper = "marker" /\ blob.arg \notin {0, 1})
    => result = Err("GeomDecodeError", 1)

C8_Witness ==
    /\ pc = "decoded"
    /\ blob.tamper = "marker"
    /\ blob.arg = 255
    /\ rtype = "GeometryCollection"
    /\ geom.kind = "GeometryCollection"
    /\ result.err = "GeomDecodeError"

\* C9: Geometry's read_from_wkb returns UnsupportedGeometryType for a body,
\* of either byte order, whose type code is none of 1..7, 1001, 1002; it
\* accepts no such code as some geometry.
C9_UnknownCode ==
    (pc = "decoded" /\ rtype = "Geometry" /\ blob.tamper = "type"
        /\ blob.arg \notin TableCodes)
    => (result.tag = "Err" /\ result.err = "UnsupportedGeometryType")

C9_Witness ==
    /\ pc = "decoded"
    /\ rtype = "Geometry"
    /\ blob.tamper = "type"
    /\ blob.arg = 99
    /\ blob.bo = "BigEndian"
    /\ blob.by = "foreign"
    /\ result.err = "UnsupportedGeometryType"

\* C10: read through the entry point of a static type K other than the kind
\* the body's type code names, a body is refused with the WrongType error; no
\* value of kind K is returned and nothing panics.
C10_WrongType ==
    (pc = "decoded" /\ Untampered /\ blob.by = "foreign"
        /\ rtype # "Geometry" /\ rtype # geom.kind)
    => (result.tag = "Err" /\ result.err = "WrongType")

\* C11: Geometry's read_from_wkb dispatches all nine type codes: a body of
\* another producer with the code 1001 decodes to the PointZ (x, y, z) it was
\* written for and one with the code 1002 to the LineStringZ, as the bodies
\* with the codes 1..7 decode to the values of their kinds.
C11_NineCodes ==
    (pc = "decoded" /\ Untampered /\ blob.by = "foreign"
        /\ blob.bo = "LittleEndian" /\ rtype = "Geometry")
    => (result.tag = "Ok" /\ result.val = geom)

\* C12: to_wkb of a GeometryCollection, held as GeometryCollection or as the
\* GeometryCollection variant of Geometry, succeeds, and its body is the
\* count-prefixed form: the marker 1, the type code 7 little-endian, the
\* member count as a little-endian u32, then the members in order, each a full
\* tagged body.
C12_CollectionEncoding ==
    (pc \in {"encoded", "encode_failed"} /\ blob.by = "to_wkb"
        /\ blob.tamper = "none" /\ geom.kind = "GeometryCollection")
    => /\ pc = "encoded"
       /\ SubSeq(buf, 9, Len(buf)) = iso_wkb("LittleEndian", geom)

\* C13: when the blob ends inside the body, after the marker and the type
\* code and before the points, rings, elements or members its counts declare
\* have been read, from_wkb for the value's own static type returns the
\* Truncated error for the whole call; it returns no geometry of fewer
\* elements.
C13_Truncated ==
    (pc = "decoded" /\ blob.tamper = "truncate" /\ blob.arg >= 13
        /\ geom.kind \notin {"Point", "PointZ"}
        /\ (blob.by = "foreign" \/ geom.kind # "GeometryCollection")
        /\ rtype \in StaticTypes(geom))
    => (result.tag = "Err" /\ result.err = "Truncated")

\* C16: with a maximum depth of 1 configured, decoding a GeometryCollection
\* that holds a GeometryCollection (depth 2) fails with the TooDeep error; the
\* reader does not recurse into the inner collection.
C16_TooDeep ==
    (pc = "decoded" /\ Untampered /\ blob.by = "foreign"
        /\ blob.bo = "LittleEndian"
        /\ rtype \in {"Geometry", "GeometryCollection"}
        /\ geom.kind = "GeometryCollection"
        /\ \E i \in 1..Len(geom.geoms) : geom.geoms[i].kind = "GeometryCollection")
    => (result.tag = "Err" /\ result.err = "TooDeep")

\* The flags byte b with bit 0 flipped.
FlipBit0(b) == IF b % 2 = 1 THEN b - 1 ELSE b + 1

\* C14: the body is read in the byte order its own marker byte names, not in
\* that of bit 0 of the header's flags byte: the buffer that differs from the
\* decoded one in bit 0 of the flags byte alone decodes to the same result,
\* and so does the blob another producer writes with the other header bit
\* and the same body.
C14_HeaderBitIgnored ==
    /\ (pc = "decoded" /\ Len(buf) >= 4)
       => result = from_wkb(rtype, [buf EXCEPT ![4] = FlipBit0(buf[4])])
    /\ (pc = "decoded" /\ Untampered /\ blob.by = "foreign")
       => result = from_wkb(rtype, foreign_blob(~blob.le, blob.code, blob.fill,
                                                blob.bo, geom))

C14_Witness ==
    /\ pc = "decoded"
    /\ Untampered
    /\ blob.by = "foreign"
    /\ ~blob.le
    /\ blob.bo = "LittleEndian"
    /\ geom.kind = "Polygon"
    /\ rtype = "Polygon"
    /\ result.tag = "Ok"
    /\ result.val = geom

\* Bit k of byte b is set.
Bit(b, k) == (b \div (2 ^ k)) % 2 = 1

\* C15: from_byte reads bit 0 as little-endian, bits 1-3 as the envelope code,
\* bit 4 as empty geometry and bit 5 as extended type, and does not panic on
\* an envelope code in 0..4; for every GPKGGeomFlags value f,
\* from_byte(to_byte(f)) = f; and for every byte b with an envelope code in
\* 0..4, to_byte(from_byte(b)) is b with the bits 6 and 7 cleared.
C15_FlagsRoundTrip ==
    /\ flag_pc = "panic" => EnvelopeCode(flag_in.byte) > 4
    /\ flag_pc = "byte.from"
       => /\ flag_struct.little_endian = Bit(flag_in.byte, 0)
          /\ flag_struct.envelope =
                 (CASE EnvelopeCode(flag_in.byte) = 0 -> "Missing"
                    [] EnvelopeCode(flag_in.byte) = 1 -> "XY"
                    [] EnvelopeCode(flag_in.byte) = 2 -> "XYZ"
                    [] EnvelopeCode(flag_in.byte) = 3 -> "XYM"
                    [] EnvelopeCode(flag_in.byte) = 4 -> "XYZM")
          /\ flag_struct.empty_geom = Bit(flag_in.byte, 4)
          /\ flag_struct.extended = Bit(flag_in.byte, 5)
    /\ flag_pc = "byte.from.to" => flag_byte = flag_in.byte % 64
    /\ flag_pc = "flags.to.from" => flag_struct = flag_in.flags

C15_Witness ==
    /\ flag_pc = "byte.from.to"
    /\ flag_in.byte = 233
    /\ flag_struct.envelope = "XYZM"
    /\ flag_struct.extended
    /\ flag_byte = 41


\* C17: GeoPackage::create on a path that already holds a file returns
\* Error::CreateExistingError and changes nothing: neither the file nor an
\* open GeoPackage.
C17_CreateExisting ==
    [][(Create /\ file.by # "absent")
        => /\ ret' = RetErr("create", "none", "CreateExistingError")
           /\ file' = file
           /\ gp' = gp]_vars

\* create, create_layer, close, create: the second create has failed and the
\* file still holds the layer.
C17_Witness ==
    /\ ret = RetErr("create", "none", "CreateExistingError")
    /\ ~gp.open
    /\ file.by = "create"
    /\ file.db.tables["test"] # "none"

\* C18: GeoPackage::open returns Ok on a file that GeoPackage::create made,
\* whatever layers and records were put in it.
C18_OpenCreated ==
    (ret.op = "open" /\ file.by = "create") => (ret.tag = "Ok" /\ gp.open)

\* A file made by create, with a feature layer and records in it, was
\* opened.
C18_Witness ==
    /\ ret = RetOk("open", "none", << >>)
    /\ file.by = "create"
    /\ file.db.gpkg_geometry_columns # {}
    /\ \E l \in LayerNames : file.db.rows[l] # << >>

\* The validations of GeoPackage::open a file fails.
FailedValidation(f) ==
    \/ f.application_id # GPKG_APPLICATION_ID
    \/ f.integrity_check # "ok"
    \/ foreign_key_check(f.db) # {}

\* C19: GeoPackage::open on a file that fails a validation returns
\* Err(ValidationError) and yields no GeoPackage.
C19_ValidationError ==
    (ret.op = "open" /\ file.by # "absent" /\ FailedValidation(file))
        => (ret = RetErr("open", "none", "ValidationError") /\ ~gp.open)

\* C20: get_all on a layer gives the records the successful insert_record
\* and insert_many calls were given, in their order.
C20_GetAll ==
    (ret.op = "get_all" /\ gp.db.tables[get_gpkg_layer_name(ret.model)] = ret.model)
        => /\ ret.tag = "Ok"
           /\ ret.val = inserted[get_gpkg_layer_name(ret.model)]


\* The geometry type names of GEO_TYPES that have a Z, and those that have
\* an M.
ZTypeNames ==
    {"POLYGONZ", "LINESTRINGZ", "POINTZ", "MULTIPOLYGONZ", "MULTILINESTRINGZ",
     "MULTIPOINTZ", "POLYGONZM", "LINESTRINGZM", "POINTZM", "MULTIPOLYGONZM",
     "MULTILINESTRINGZM", "MULTIPOINTZM"}

MTypeNames ==
    {"POLYGONM", "LINESTRINGM", "POINTM", "MULTIPOLYGONM", "MULTILINESTRINGM",
     "MULTIPOINTM", "POLYGONZM", "LINESTRINGZM", "POINTZM", "MULTIPOLYGONZM",
     "MULTILINESTRINGZM", "MULTIPOINTZM"}

\* C21: the row create_layer registers in gpkg_geometry_columns has z = 1
\* exactly when the geometry type name has a Z and m = 1 exactly when it has
\* an M.
C21_ZMFlags ==
    \A g \in file.db.gpkg_geometry_columns :
        g.table_name \in LayerNames
            => /\ g.z = 1 <=> g.geometry_type_name \in ZTypeNames
               /\ g.m = 1 <=> g.geometry_type_name \in MTypeNames


\* C22: update_layer_srs_id on an existing feature layer succeeds, and then
\* the layer's rows in gpkg_contents and in gpkg_geometry_columns both have
\* the new srs_id.
C22_UpdateSrsId ==
    (/\ ret.op = "update_layer_srs_id"
     /\ \E g \in gp.db.gpkg_geometry_columns : g.table_name = ret.model)
        => /\ ret.tag = "Ok"
           /\ \A c \in gp.db.gpkg_contents :
                c.table_name = ret.model => c.srs_id = {ret.val[1]}
           /\ \A g \in gp.db.gpkg_geometry_columns :
                g.table_name = ret.model => g.srs_id = ret.val[1]


\* C23: decoding a Polygon body, alone or in a MultiPolygon, does not panic
\* whatever ring count it declares, and a body with its exterior ring and
\* its interior rings decodes to the polygon with these rings in their
\* order.
C23_RingCount ==
    /\ (pc = "decoded" /\ blob.tamper = "count") => result.tag # "Panic"
    /\ (/\ pc = "decoded"
        /\ Untampered
        /\ geom.kind \in {"Polygon", "MultiPolygon"}
        /\ rtype = geom.kind)
            => (result.tag = "Ok" /\ result.val = geom)


\* C24: a GeometryCollection body whose members are of different kinds and
\* in different byte orders, collections among them, decodes to the
\* collection of these members, nested as they are.
C24_CollectionMembers ==
    (/\ pc = "decoded"
     /\ Untampered
     /\ blob.by \in {"foreign", "mixed"}
     /\ geom.kind = "GeometryCollection"
     /\ rtype = "GeometryCollection")
        => (result.tag = "Ok" /\ result.val = geom)


\* C25: a big-endian GeometryCollection body with k members decodes to a
\* collection of k members, read as Geometry as well as read as
\* GeometryCollection.
C25_BigEndianCount ==
    (/\ pc = "decoded"
     /\ Untampered
     /\ blob.by = "foreign"
     /\ blob.bo = "BigEndian"
     /\ geom.kind = "GeometryCollection"
     /\ rtype \in {"Geometry", "GeometryCollection"})
        => /\ result.tag = "Ok"
           /\ result.val.kind = "GeometryCollection"
           /\ Len(result.val.geoms) = Len(geom.geoms)


\* The static type whose reader is the type-specific reader for the type
\* code K.
CodeKinds ==
    << "Point", "LineString", "Polygon", "MultiPoint", "MultiLineString",
       "MultiPolygon", "GeometryCollection" >>

\* The body of the blob in storage starts at offset 8 with a marker 0 or 1
\* and the type code K in the marker's byte order.
BodyHasCode(K) ==
    /\ blob.code = 0
    /\ blob.tamper # "flags"
    /\ Len(buf) >= 13
    /\ buf[9] \in {0, 1}
    /\ SubSeq(buf, 10, 13)
         = write_u32(IF buf[9] = 1 THEN "LittleEndian" ELSE "BigEndian", K)

\* Two reads agree: both fail, or both give the same geometry after the same
\* number of bytes.
Agree(a, b) ==
    IF a.tag = "Ok" THEN b.tag = "Ok" /\ b.val = a.val /\ b.pos = a.pos
    ELSE b.tag # "Ok"

\* C26: on a body with the type code K in 1..7, in either byte order, the
\* Geometry reader and the reader of the type for K agree.
C26_ReadersAgree ==
    \A K \in 1..7 :
        (pc = "decoded" /\ rtype = "Geometry" /\ BodyHasCode(K))
            => Agree(result, from_wkb(CodeKinds[K], buf))


\* C27: reading the body to_wkb wrote, for the type it was written for, ends
\* with the cursor at the end of the body.
C27_ConsumesBody ==
    (/\ pc = "decoded"
     /\ blob.by = "to_wkb"
     /\ Untampered
     /\ rtype \in StaticTypes(geom)
     /\ geom.kind = "GeometryCollection" => rtype = "GeometryCollection")
        => (result.tag = "Ok" /\ result.pos = Len(buf) - 8)


\* from_wkb gets past the header of the blob in storage and makes its
\* cursor over the bytes of Body.
HeaderReadable ==
    /\ Len(buf) >= 8
    /\ ~from_byte(buf[4]).panic
    /\ geom_start(from_byte(buf[4])) <= Len(buf)

Body == SubSeq(buf, geom_start(from_byte(buf[4])) + 1, Len(buf))

\* What one iteration of a loop of the readers, or the call for a nested
\* member, returns when it starts at position p of b in byte order bo, for
\* each of the loops: the element readers of LineString, MultiPoint,
\* GPKGLineStringZ, Polygon and MultiLineString, MultiPolygon, and of the
\* collections.
Iterations(b, p, bo) ==
    {Coordinate_read_from_bytes(b, p, bo),
     Point_read_from_bytes(b, p, bo),
     GPKGPointZ_read_from_bytes(b, p, bo),
     LineString_read_from_bytes(b, p, bo),
     Polygon_read_from_bytes(b, p, bo),
     Geometry_read_from_wkb(b, p)}

\* C28: decoding ends with the cursor inside the buffer, and wherever in the
\* buffer an iteration of a loop or a call for a nested member starts, it
\* ends the decode with an error or has consumed at least one byte of the
\* buffer.  The iterations are tried on the blobs of the sample values, as
\* written and with every tampering.
C28_Terminates ==
    /\ (pc = "decoded" /\ HeaderReadable) => result.pos \in 0..Len(Body)
    /\ (/\ pc = "decoded"
        /\ rtype = "Geometry"
        /\ HeaderReadable
        /\ geom \in Samples)
            => \A p \in 0..Len(Body), bo \in {"LittleEndian", "BigEndian"} :
                \A r \in Iterations(Body, p, bo) :
                    r.tag = "Err" \/ (r.pos > p /\ r.pos <= Len(Body))

\* A buffer whose count field declares more elements than it holds was
\* decoded: the decode ended with an io error.
C28_Witness ==
    /\ pc = "decoded"
    /\ rtype = "Geometry"
    /\ blob.tamper = "count"
    /\ blob.arg = 3
    /\ geom.kind = "MultiPolygon"
    /\ result.tag = "Err"
    /\ result.err = "Io"

====
